---- MODULE Spec2Model ----
(***************************************************************************)
(* Denshobato: the submit handler of src/src/denshobato.tsx and the        *)
(* AppleScript runner of src/src/utils/applescript.ts.                     *)
(*                                                                         *)
(* Strings are sequences of one-character strings; error messages and      *)
(* process output are sequences of words.  Every await of the code is one  *)
(* step of the invocation that executes it.  An invocation of handleSubmit *)
(* is one element of Procs; the system clipboard, the focused application  *)
(* and the queue of simulated keystrokes are shared.                       *)
(***************************************************************************)
EXTENDS Integers, Sequences, FiniteSets, TLC

\* ------------------------------------------------------------------ bounds
MaxLen == 2
NumProcs == 2

Procs == 1..NumProcs
Chars == {" ", "a"}

RECURSIVE SeqsUpTo(_, _)
SeqsUpTo(S, n) ==
  IF n = 0 THEN {<<>>}
  ELSE LET shorter == SeqsUpTo(S, n - 1)
       IN  shorter \cup {Append(s, c) : s \in {t \in shorter : Len(t) = n - 1}, c \in S}

\* What the user can type into the textarea.
RawInputs == SeqsUpTo(Chars, MaxLen)

\* ------------------------------------------------------- String.prototype
IsSpace(c) == c = " "

RECURSIVE TrimStart(_)
TrimStart(s) ==
  IF s = <<>> THEN <<>>
  ELSE IF IsSpace(Head(s)) THEN TrimStart(Tail(s)) ELSE s

RECURSIVE TrimEnd(_)
TrimEnd(s) ==
  IF s = <<>> THEN <<>>
  ELSE IF IsSpace(s[Len(s)]) THEN TrimEnd(SubSeq(s, 1, Len(s) - 1)) ELSE s

Trim(s) == TrimEnd(TrimStart(s))

\* word w occurs in word tok as a substring (the words the model uses)
WordHas(tok, w) ==
  \/ tok = w
  \/ tok = "accessibility" /\ w = "access"
  \/ tok = "permissions" /\ w = "permission"

\* message.includes(w)
Includes(message, w) == \E i \in DOMAIN message : WordHas(message[i], w)

\* ------------------------------------------------------------------ errors
NoError == [thrown |-> FALSE, isError |-> FALSE, message |-> <<>>]
MkError(message) == [thrown |-> TRUE, isError |-> TRUE, message |-> message]
\* a thrown value that is not an instance of Error
NonError == [thrown |-> TRUE, isError |-> FALSE, message |-> <<>>]

\* What a failing Clipboard call of the host API may throw.
ClipboardErrors ==
  { MkError(<<"Clipboard", "unavailable">>),
    MkError(<<"no", "access", "to", "pasteboard">>),
    NonError }

\* ----------------------------------------------------- execAppleScript
\* How the osascript child process can end.
ProcOutcomes ==
  { [spawned |-> FALSE, exitOk |-> FALSE, stdout |-> <<>>, stderr |-> <<>>],
    [spawned |-> TRUE, exitOk |-> FALSE, stdout |-> <<>>,
     stderr |-> <<"execution", "error">>],
    [spawned |-> TRUE, exitOk |-> FALSE, stdout |-> <<>>,
     stderr |-> <<"not", "allowed", "assistive", "access">>],
    [spawned |-> TRUE, exitOk |-> TRUE, stdout |-> <<"Raycast">>,
     stderr |-> <<"warning">>],
    [spawned |-> TRUE, exitOk |-> TRUE, stdout |-> <<"Raycast">>, stderr |-> <<>>] }

\* promisify(exec): rejects when the process cannot be spawned or exits non-zero
ExecRejects(o) == ~o.spawned \/ ~o.exitOk

ExecRejection(o) ==
  IF ~o.spawned THEN <<"Error", ":", "spawn", "ENOENT">>
  ELSE <<"Error", ":", "Command", "failed", ":", "osascript">> \o o.stderr

\* execAppleScript that does not look at the error stream
ExecAppleScriptIgnoresStderr(o) ==
  IF ExecRejects(o)
  THEN [ok |-> FALSE, value |-> <<>>,
        error |-> MkError(<<"Failed", "to", "execute", "AppleScript", ":">>
                            \o ExecRejection(o))]
  ELSE [ok |-> TRUE, value |-> Trim(o.stdout), error |-> NoError]

\* execAppleScript: [ok, value, error]
ExecAppleScript(o) ==
  LET inner == IF ExecRejects(o) THEN ExecRejection(o)
               ELSE <<"Error", ":", "AppleScript", "error", ":">> \o o.stderr
      wrap(m) == MkError(<<"Failed", "to", "execute", "AppleScript", ":">> \o m)
  IN  IF ExecRejects(o) \/ o.stderr # <<>>
      THEN [ok |-> FALSE, value |-> <<>>, error |-> wrap(inner)]
      ELSE [ok |-> TRUE, value |-> Trim(o.stdout), error |-> NoError]

\* every way the process can end, with output that has whitespace around it
Stdouts == {<<>>, <<" ">>, <<"R">>, <<"R", " ">>, <<" ", "R", " ", "R", " ">>}
Stderrs == {<<>>, <<"warning">>, <<"execution", "error">>}
ExecOutcomes ==
  ProcOutcomes \cup
  { [spawned |-> TRUE, exitOk |-> x, stdout |-> so, stderr |-> se] :
      x \in BOOLEAN, so \in Stdouts, se \in Stderrs }

\* the script ran (and so sent its keystroke) iff the process was spawned
\* and exited successfully
ScriptRan(o) == o.spawned /\ o.exitOk

\* ------------------------------------------------- the osascript command
MaxScriptLen == 3
\* the characters of a script that matter to the shell, and a plain one
ScriptChars == {"'", "\"", "\\", " ", "a"}
Scripts == SeqsUpTo(ScriptChars, MaxScriptLen)

\* the replacement of script.replace(/'/g, ...): '"'"'
QuoteEscape == <<"'", "\"", "'", "\"", "'">>
\* Escape with a backslash put before each single quote
RECURSIVE EscapeBackslash(_)
EscapeBackslash(script) ==
  IF script = <<>> THEN <<>>
  ELSE (IF Head(script) = "'" THEN <<"\\", "'">> ELSE <<Head(script)>>)
         \o EscapeBackslash(Tail(script))

\* script.replace(/'/g, "'\"'\"'")
RECURSIVE Escape(_)
Escape(script) ==
  IF script = <<>> THEN <<>>
  ELSE (IF Head(script) = "'" THEN QuoteEscape ELSE <<Head(script)>>)
         \o Escape(Tail(script))

Osascript == <<"o", "s", "a", "s", "c", "r", "i", "p", "t">>
DashE == <<"-", "e">>
\* `osascript -e '${...}'`
CommandLine(script) ==
  Osascript \o <<" ">> \o DashE \o <<" ", "'">> \o Escape(script) \o <<"'">>

\* what the shell makes of a command line with an unterminated quote
Unterminated == << <<"unterminated">> >>
\* Word splitting and quote removal of the POSIX shell (sh -c, as exec
\* runs it): st.mode is the quoting in force, st.word the word under way.
RECURSIVE Lex(_, _, _)
Lex(s, i, st) ==
  IF i > Len(s)
  THEN IF st.mode # "plain" THEN Unterminated
       ELSE IF st.open THEN Append(st.words, st.word) ELSE st.words
  ELSE
    LET c == s[i]
        add(x) == [st EXCEPT !.word = Append(@, x), !.open = TRUE]
    IN  CASE st.mode = "single" ->
               IF c = "'" THEN Lex(s, i + 1, [st EXCEPT !.mode = "plain"])
               ELSE Lex(s, i + 1, add(c))
          [] st.mode = "double" ->
               IF c = "\"" THEN Lex(s, i + 1, [st EXCEPT !.mode = "plain"])
               ELSE IF c = "\\" /\ i < Len(s) /\ s[i + 1] \in {"\"", "\\"}
                    THEN Lex(s, i + 2, add(s[i + 1]))
                    ELSE Lex(s, i + 1, add(c))
          [] OTHER ->
               IF c = " "
               THEN Lex(s, i + 1,
                        IF st.open
                        THEN [st EXCEPT !.words = Append(@, st.word),
                                        !.word = <<>>, !.open = FALSE]
                        ELSE st)
               ELSE IF c = "'"
               THEN Lex(s, i + 1, [st EXCEPT !.mode = "single", !.open = TRUE])
               ELSE IF c = "\""
               THEN Lex(s, i + 1, [st EXCEPT !.mode = "double", !.open = TRUE])
               ELSE IF c = "\\"
               THEN IF i < Len(s) THEN Lex(s, i + 2, add(s[i + 1]))
                    ELSE Lex(s, i + 1, st)
               ELSE Lex(s, i + 1, add(c))

\* the words (argv) the shell passes on for a command line
ShellWords(line) ==
  Lex(line, 1, [mode |-> "plain", word |-> <<>>, open |-> FALSE, words |-> <<>>])

\* --------------------------------------------------------------- clipboard
\* Clipboard.ReadContent: text and file, each possibly absent ("" is falsy)
Clip(t, f) == [text |-> t, file |-> f]
TextClip(t) == Clip(t, <<>>)
EmptyClip == Clip(<<>>, <<>>)

InitialClips ==
  { EmptyClip,
    TextClip(<<"a">>),
    TextClip(<<"c">>),
    Clip(<<>>, <<"f">>),
    Clip(<<"f">>, <<"f">>) }

\* ------------------------------------------------------------------ notices
Notice(t, d) == [text |-> t, detail |-> d]
ValidationNotice == Notice("Please enter message", <<>>)
ClipboardOnlyNotice ==
  Notice("Message copied to clipboard (AppleScript permissions required for auto-paste)", <<>>)
SuccessNotice == Notice("Message sent successfully!", <<>>)
PermissionNotice == Notice("Permission denied. Please check accessibility settings.", <<>>)
AppleScriptNotice == Notice("AppleScript failed. Message saved to clipboard instead.", <<>>)
GenericNotice(m) == Notice("Failed: ", m)
UnknownNotice == Notice("Failed to send message...", <<>>)

\* FailureNotice with the AppleScript test before the permission test
FailureNoticeAppleScriptFirst(e) ==
  IF e.isError
  THEN IF Includes(e.message, "AppleScript")
       THEN AppleScriptNotice
       ELSE IF Includes(e.message, "permission") \/ Includes(e.message, "access")
            THEN PermissionNotice
            ELSE GenericNotice(e.message)
  ELSE UnknownNotice

\* the notice the catch block of handleSubmit chooses
FailureNotice(e) ==
  IF e.isError
  THEN IF Includes(e.message, "permission") \/ Includes(e.message, "access")
       THEN PermissionNotice
       ELSE IF Includes(e.message, "AppleScript")
            THEN AppleScriptNotice
            ELSE GenericNotice(e.message)
  ELSE UnknownNotice

\* -------------------------------------------------------------------- state
\* ----------------------------------------------------------- history store
MAX_HISTORY_ITEMS == 10
NumTexts == 11
MaxHistoryOps == 2

\* the texts that are saved to the history, told apart by number
HistoryTexts == 1..NumTexts

\* JSON text as its sequence of tokens
Punct(c) == [t |-> c, v |-> 0]
Str(x) == [t |-> "string", v |-> x]
RECURSIVE Joined(_)
Joined(l) ==
  IF l = <<>> THEN <<>>
  ELSE IF Len(l) = 1 THEN <<Str(l[1])>>
       ELSE <<Str(l[1]), Punct(",")>> \o Joined(Tail(l))
\* JSON.stringify(array of strings)
Stringify(l) == <<Punct("[")>> \o Joined(l) \o <<Punct("]")>>
\* JSON.parse of the text of an array of strings
Parse(json) ==
  LET inner == SubSeq(json, 2, Len(json) - 1)
  IN  [i \in 1..((Len(inner) + 1) \div 2) |-> inner[2 * i - 1].v]

\* LocalStorage.getItem gives undefined: nothing is stored under the key
Absent == <<>>
\* Array.prototype.slice(0, n)
Slice(l, n) == SubSeq(l, 1, IF Len(l) < n THEN Len(l) ELSE n)
\* the history after k saves of k different texts to an empty store
Recent(k) == [i \in 1..k |-> k + 1 - i]
NoOp == [op |-> "none", text |-> 0, before |-> <<>>, read |-> TRUE,
         written |-> TRUE, result |-> <<>>]

VARIABLES
  pc,                \* pc[p]: where invocation p of handleSubmit stands
  values,            \* values[p]: the textarea content handed to handleSubmit
  text,              \* text[p]: the trimmed submitted text
  hasPermissions,    \* hasPermissions[p]: what checkPermissions returned
  originalClipboard, \* originalClipboard[p]: the snapshot of sendToFocusedApp
  err,               \* err[p]: the error in flight (fallbackError / error)
  log,               \* log[p]: the external calls p has made, in order
  notices,           \* notices[p]: the HUD notices p has shown, in order
  clip0,             \* clip0[p]: the clipboard when p was submitted
  clipboard,         \* the system clipboard
  pending,           \* simulated Cmd+V keystrokes not yet consumed (issuer)
  received,          \* what the focused application has been given, in order
  prevProbe,         \* what the probe of the submission before the newest gave
  storage,           \* LocalStorage: the item stored under HISTORY_KEY
  lastOp,            \* the history operation that returned last
  historyOps,        \* how many history operations have returned
  script,            \* the script execAppleScript was called with
  command,           \* the command line handed to exec
  execCalls,         \* how many times the call has run exec
  proc,              \* how the osascript process ended
  result,            \* what execAppleScript returned or threw
  epc                \* where the call of execAppleScript stands

hvars == <<storage, lastOp, historyOps>>
svars == <<pc, values, text, hasPermissions, originalClipboard, err, log, notices,
           clip0, clipboard, pending, received, prevProbe>>
xvars == <<script, command, execCalls, proc, result, epc>>
vars == <<svars, hvars, xvars>>

NoProcess == [spawned |-> FALSE, exitOk |-> FALSE, stdout |-> <<>>, stderr |-> <<>>]
NoResult == [ok |-> FALSE, value |-> <<>>, error |-> NoError]
\* execAppleScript is not being called
NoCall ==
  /\ script = <<>> /\ command = <<>> /\ execCalls = 0
  /\ proc = NoProcess /\ result = NoResult /\ epc = "none"

Finished == {"done", "threw"}
InFlight(p) == pc[p] \notin Finished \cup {"idle", "forgotten"}
\* how many calls at call site op the log l holds
Count(l, op) == Cardinality({i \in DOMAIN l : l[i].op = op})

Init ==
  /\ pc = [p \in Procs |-> "idle"]
  /\ values = [p \in Procs |-> <<>>]
  /\ text = [p \in Procs |-> <<>>]
  /\ hasPermissions = [p \in Procs |-> FALSE]
  /\ originalClipboard = [p \in Procs |-> EmptyClip]
  /\ err = [p \in Procs |-> NoError]
  /\ log = [p \in Procs |-> <<>>]
  /\ notices = [p \in Procs |-> <<>>]
  /\ clip0 = [p \in Procs |-> EmptyClip]
  /\ clipboard \in InitialClips
  /\ pending = <<>>
  /\ received = <<>>
  /\ prevProbe = "none"
  /\ storage = Absent
  /\ lastOp = NoOp
  /\ historyOps = 0
  /\ NoCall

Goto(p, l) == pc' = [pc EXCEPT ![p] = l]
\* p has made external call op with argument arg; ok: it did not throw
Logged(p, op, arg, ok) ==
  log' = [log EXCEPT ![p] = Append(@, [op |-> op, arg |-> arg, ok |-> ok])]
Show(p, n) == notices' = [notices EXCEPT ![p] = Append(@, n)]
Raise(p, e) == err' = [err EXCEPT ![p] = e]

\* await Clipboard.copy(t) at call site op: on success go to l, on a throw
\* go to handler with the error in flight
ClipboardCopy(p, op, t, l, handler) ==
  \/ /\ clipboard' = TextClip(t)
     /\ Logged(p, op, t, TRUE)
     /\ Goto(p, l)
     /\ UNCHANGED err
  \/ \E e \in ClipboardErrors :
       /\ Logged(p, op, t, FALSE)
       /\ Raise(p, e)
       /\ Goto(p, handler)
       /\ UNCHANGED clipboard

\* ------------------------------------------------------------ handleSubmit
\* The frame of an invocation that has returned (or thrown) is dead: it is
\* forgotten when the form calls handleSubmit again.
Forgotten(f, p, init, new) ==
  [q \in Procs |-> IF q = p THEN new ELSE IF InFlight(q) THEN f[q] ELSE init]

\* what the permission probe of the submission before p gave
PreviousProbe(p) ==
  IF p = 1 \/ log[p - 1] = <<>> THEN "none"
  ELSE IF hasPermissions[p - 1] THEN "granted" ELSE "denied"

\* Enter with the empty check on the untrimmed textarea content
EnterUntrimmedCheck(p, raw) ==
  /\ pc[p] = "idle"
  /\ \A q \in Procs : q < p => pc[q] # "idle"
  /\ pc' = [q \in Procs |->
              IF q = p
              THEN IF raw = <<>> THEN "validation" ELSE "checkPermissions"
              ELSE IF pc[q] \in Finished THEN "forgotten" ELSE pc[q]]
  /\ values' = Forgotten(values, p, <<>>, raw)
  /\ text' = Forgotten(text, p, <<>>, Trim(raw))
  /\ clip0' = Forgotten(clip0, p, EmptyClip, clipboard)
  /\ hasPermissions' = Forgotten(hasPermissions, p, FALSE, FALSE)
  /\ originalClipboard' = Forgotten(originalClipboard, p, EmptyClip, EmptyClip)
  /\ err' = Forgotten(err, p, NoError, NoError)
  /\ log' = Forgotten(log, p, <<>>, <<>>)
  /\ notices' = Forgotten(notices, p, <<>>, <<>>)
  /\ received' = SelectSeq(received, LAMBDA r : InFlight(r.by))
  /\ UNCHANGED <<clipboard, pending>>
  /\ prevProbe' = PreviousProbe(p)
  /\ UNCHANGED <<hvars, xvars>>

\* handleSubmit(values) is entered: trim and the empty check
Enter(p, raw) ==
  /\ pc[p] = "idle"
  /\ \A q \in Procs : q < p => pc[q] # "idle"
  /\ pc' = [q \in Procs |->
              IF q = p
              THEN IF Trim(raw) = <<>> THEN "validation" ELSE "checkPermissions"
              ELSE IF pc[q] \in Finished THEN "forgotten" ELSE pc[q]]
  /\ values' = Forgotten(values, p, <<>>, raw)
  /\ text' = Forgotten(text, p, <<>>, Trim(raw))
  /\ clip0' = Forgotten(clip0, p, EmptyClip, clipboard)
  /\ hasPermissions' = Forgotten(hasPermissions, p, FALSE, FALSE)
  /\ originalClipboard' = Forgotten(originalClipboard, p, EmptyClip, EmptyClip)
  /\ err' = Forgotten(err, p, NoError, NoError)
  /\ log' = Forgotten(log, p, <<>>, <<>>)
  /\ notices' = Forgotten(notices, p, <<>>, <<>>)
  /\ received' = SelectSeq(received, LAMBDA r : InFlight(r.by))
  /\ UNCHANGED <<clipboard, pending>>
  /\ prevProbe' = PreviousProbe(p)
  /\ UNCHANGED <<hvars, xvars>>

\* The user submits the form while no submission is in flight.
Submit(p) ==
  /\ \A q \in Procs : ~InFlight(q)
  /\ \E raw \in RawInputs : Enter(p, raw)

\* await showHUD("Please enter message"); return
ShowValidation(p) ==
  /\ pc[p] = "validation"
  /\ Show(p, ValidationNotice)
  /\ Goto(p, "done")
  /\ UNCHANGED <<values, text, hasPermissions, originalClipboard, err, log,
                 clip0, clipboard, pending, received>>
  /\ UNCHANGED <<prevProbe, hvars, xvars>>

\* CheckPermissions with the early return on a false probe left out
CheckPermissionsNoReturn(p) ==
  /\ pc[p] = "checkPermissions"
  /\ \E o \in ProcOutcomes :
       /\ hasPermissions' = [hasPermissions EXCEPT ![p] = ExecAppleScript(o).ok]
       /\ Logged(p, "probe", <<>>, ExecAppleScript(o).ok)
       /\ Goto(p, "paste")
  /\ UNCHANGED <<values, text, originalClipboard, err, notices, clip0,
                 clipboard, pending, received>>
  /\ UNCHANGED <<prevProbe, hvars, xvars>>

\* CheckPermissions that reuses the result of the previous submission
CheckPermissionsCached(p) ==
  /\ pc[p] = "checkPermissions"
  /\ IF prevProbe = "none"
     THEN \E o \in ProcOutcomes :
            /\ hasPermissions' = [hasPermissions EXCEPT ![p] = ExecAppleScript(o).ok]
            /\ Logged(p, "probe", <<>>, ExecAppleScript(o).ok)
            /\ Goto(p, IF ExecAppleScript(o).ok THEN "paste" ELSE "copyOnly")
     ELSE /\ hasPermissions' = [hasPermissions EXCEPT ![p] = (prevProbe = "granted")]
          /\ Goto(p, IF prevProbe = "granted" THEN "paste" ELSE "copyOnly")
          /\ UNCHANGED log
  /\ UNCHANGED <<values, text, originalClipboard, err, notices, clip0,
                 clipboard, pending, received>>
  /\ UNCHANGED <<prevProbe, hvars, xvars>>

\* const hasPermissions = await checkPermissions(); if (!hasPermissions) ...
CheckPermissions(p) ==
  /\ pc[p] = "checkPermissions"
  /\ \E o \in ProcOutcomes :
       /\ hasPermissions' = [hasPermissions EXCEPT ![p] = ExecAppleScript(o).ok]
       /\ Logged(p, "probe", <<>>, ExecAppleScript(o).ok)
       /\ Goto(p, IF ExecAppleScript(o).ok THEN "paste" ELSE "copyOnly")
  /\ UNCHANGED <<values, text, originalClipboard, err, notices, clip0,
                 clipboard, pending, received>>
  /\ UNCHANGED <<prevProbe, hvars, xvars>>

\* CopyOnly copying the textarea content instead of the trimmed text
CopyOnlyUntrimmed(p) ==
  /\ pc[p] = "copyOnly"
  /\ ClipboardCopy(p, "copyOnly", values[p], "hudCopyOnly", "threw")
  /\ UNCHANGED <<values, text, hasPermissions, originalClipboard, notices,
                 clip0, pending, received>>
  /\ UNCHANGED <<prevProbe, hvars, xvars>>

\* probe false: await Clipboard.copy(text), outside any try
CopyOnly(p) ==
  /\ pc[p] = "copyOnly"
  /\ ClipboardCopy(p, "copyOnly", text[p], "hudCopyOnly", "threw")
  /\ UNCHANGED <<values, text, hasPermissions, originalClipboard, notices,
                 clip0, pending, received>>
  /\ UNCHANGED <<prevProbe, hvars, xvars>>

ShowClipboardOnly(p) ==
  /\ pc[p] = "hudCopyOnly"
  /\ Show(p, ClipboardOnlyNotice)
  /\ Goto(p, "done")
  /\ UNCHANGED <<values, text, hasPermissions, originalClipboard, err, log,
                 clip0, clipboard, pending, received>>
  /\ UNCHANGED <<prevProbe, hvars, xvars>>

\* --------------------------------------------------------- sendToFocusedApp
\* Paste whose fallback runs after the try instead of in its catch
PasteThenFallback(p) ==
  /\ pc[p] = "paste"
  /\ \/ /\ received' = Append(received, [by |-> p, what |-> TextClip(text[p])])
        /\ clipboard' \in {clipboard, TextClip(text[p])}
        /\ Logged(p, "paste", text[p], TRUE)
     \/ /\ Logged(p, "paste", text[p], FALSE)
        /\ UNCHANGED <<received, clipboard>>
  /\ Goto(p, "snapshot")
  /\ UNCHANGED <<values, text, hasPermissions, originalClipboard, err, notices,
                 clip0, pending>>
  /\ UNCHANGED <<prevProbe, hvars, xvars>>

\* Method 1: await Clipboard.paste(text).  Whether the host leaves the pasted
\* text on the clipboard is not decided by this code: both are possible.
Paste(p) ==
  /\ pc[p] = "paste"
  /\ \/ /\ received' = Append(received, [by |-> p, what |-> TextClip(text[p])])
        /\ clipboard' \in {clipboard, TextClip(text[p])}
        /\ Logged(p, "paste", text[p], TRUE)
        /\ Goto(p, "backup")
     \/ /\ Logged(p, "paste", text[p], FALSE)
        /\ Goto(p, "snapshot")
        /\ UNCHANGED <<received, clipboard>>
  /\ UNCHANGED <<values, text, hasPermissions, originalClipboard, err, notices,
                 clip0, pending>>
  /\ UNCHANGED <<prevProbe, hvars, xvars>>

\* const originalClipboard = await Clipboard.read(), in the catch of Method 1
ReadSnapshot(p) ==
  /\ pc[p] = "snapshot"
  /\ \/ /\ originalClipboard' = [originalClipboard EXCEPT ![p] = clipboard]
        /\ Logged(p, "snapshot", <<>>, TRUE)
        /\ Goto(p, "copyText")
        /\ UNCHANGED err
     \/ \E e \in ClipboardErrors :
          /\ Logged(p, "snapshot", <<>>, FALSE)
          /\ Raise(p, e)
          /\ Goto(p, "catch")
          /\ UNCHANGED originalClipboard
  /\ UNCHANGED <<values, text, hasPermissions, notices, clip0, clipboard,
                 pending, received>>
  /\ UNCHANGED <<prevProbe, hvars, xvars>>

\* await Clipboard.copy(text)
CopyText(p) ==
  /\ pc[p] = "copyText"
  /\ ClipboardCopy(p, "copyText", text[p], "keystroke", "restoreOnError")
  /\ UNCHANGED <<values, text, hasPermissions, originalClipboard, notices,
                 clip0, pending, received>>
  /\ UNCHANGED <<prevProbe, hvars, xvars>>

\* await execAppleScript(keystroke "v" using command down)
Keystroke(p) ==
  /\ pc[p] = "keystroke"
  /\ \E o \in ProcOutcomes :
       /\ pending' = IF ScriptRan(o) THEN Append(pending, p) ELSE pending
       /\ Logged(p, "keystroke", <<>>, ExecAppleScript(o).ok)
       /\ IF ExecAppleScript(o).ok
          THEN Goto(p, "delay") /\ UNCHANGED err
          ELSE Goto(p, "restoreOnError") /\ Raise(p, ExecAppleScript(o).error)
  /\ UNCHANGED <<values, text, hasPermissions, originalClipboard, notices,
                 clip0, clipboard, received>>
  /\ UNCHANGED <<prevProbe, hvars, xvars>>

\* Delay left out: the restore follows the keystroke at once
DelaySkipped(p) ==
  /\ pc[p] = "delay"
  /\ Goto(p, "restore")
  /\ UNCHANGED <<values, text, hasPermissions, originalClipboard, err, log,
                 notices, clip0, clipboard, pending, received>>
  /\ UNCHANGED <<prevProbe, hvars, xvars>>

\* Delay whose promise is never resolved
DelayNeverResolves(p) ==
  /\ pc[p] = "delay"
  /\ UNCHANGED vars

\* await new Promise((resolve) => setTimeout(resolve, 300))
Delay(p) ==
  /\ pc[p] = "delay"
  /\ Logged(p, "delay", <<>>, TRUE)
  /\ Goto(p, "restore")
  /\ UNCHANGED <<values, text, hasPermissions, originalClipboard, err, notices,
                 clip0, clipboard, pending, received>>
  /\ UNCHANGED <<prevProbe, hvars, xvars>>

\* Restore that restores only when the snapshot has a file
RestoreOnFile(p) ==
  /\ pc[p] = "restore"
  /\ IF originalClipboard[p].file # <<>>
     THEN ClipboardCopy(p, "restore", originalClipboard[p].text, "backup",
                        "restoreOnError")
     ELSE /\ Goto(p, "backup")
          /\ UNCHANGED <<log, err, clipboard>>
  /\ UNCHANGED <<values, text, hasPermissions, originalClipboard, notices,
                 clip0, pending, received>>
  /\ UNCHANGED <<prevProbe, hvars, xvars>>

\* Restore that is skipped when the clipboard no longer holds the text
RestoreIfUntouched(p) ==
  /\ pc[p] = "restore"
  /\ IF originalClipboard[p].text # <<>> /\ clipboard = TextClip(text[p])
     THEN ClipboardCopy(p, "restore", originalClipboard[p].text, "backup",
                        "restoreOnError")
     ELSE /\ Goto(p, "backup")
          /\ UNCHANGED <<log, err, clipboard>>
  /\ UNCHANGED <<values, text, hasPermissions, originalClipboard, notices,
                 clip0, pending, received>>
  /\ UNCHANGED <<prevProbe, hvars, xvars>>

\* if (originalClipboard.text) await Clipboard.copy(originalClipboard.text)
Restore(p) ==
  /\ pc[p] = "restore"
  /\ IF originalClipboard[p].text # <<>>
     THEN ClipboardCopy(p, "restore", originalClipboard[p].text, "backup",
                        "restoreOnError")
     ELSE /\ Goto(p, "backup")
          /\ UNCHANGED <<log, err, clipboard>>
  /\ UNCHANGED <<values, text, hasPermissions, originalClipboard, notices,
                 clip0, pending, received>>
  /\ UNCHANGED <<prevProbe, hvars, xvars>>

\* RestoreOnError that only rethrows
RethrowOnly(p) ==
  /\ pc[p] = "restoreOnError"
  /\ Goto(p, "catch")
  /\ UNCHANGED <<values, text, hasPermissions, originalClipboard, err, log,
                 notices, clip0, clipboard, pending, received>>
  /\ UNCHANGED <<prevProbe, hvars, xvars>>

\* catch (fallbackError): restore, then throw fallbackError; a throw of the
\* restoring copy replaces fallbackError
RestoreOnError(p) ==
  /\ pc[p] = "restoreOnError"
  /\ IF originalClipboard[p].text # <<>>
     THEN ClipboardCopy(p, "restoreOnError", originalClipboard[p].text, "catch",
                        "catch")
     ELSE /\ Goto(p, "catch")
          /\ UNCHANGED <<log, err, clipboard>>
  /\ UNCHANGED <<values, text, hasPermissions, originalClipboard, notices,
                 clip0, pending, received>>
  /\ UNCHANGED <<prevProbe, hvars, xvars>>

\* ------------------------------------------------- handleSubmit, continued
\* Backup without the write: the copy of line 86 left out
BackupSkipped(p) ==
  /\ pc[p] = "backup"
  /\ Goto(p, "verify")
  /\ UNCHANGED <<values, text, hasPermissions, originalClipboard, err, log,
                 notices, clip0, clipboard, pending, received>>
  /\ UNCHANGED <<prevProbe, hvars, xvars>>

\* Backup copying the textarea content instead of the trimmed text
BackupUntrimmed(p) ==
  /\ pc[p] = "backup"
  /\ ClipboardCopy(p, "backup", values[p], "verify", "catch")
  /\ UNCHANGED <<values, text, hasPermissions, originalClipboard, notices,
                 clip0, pending, received>>
  /\ UNCHANGED <<prevProbe, hvars, xvars>>

\* await Clipboard.copy(text): the backup copy
Backup(p) ==
  /\ pc[p] = "backup"
  /\ ClipboardCopy(p, "backup", text[p], "verify", "catch")
  /\ UNCHANGED <<values, text, hasPermissions, originalClipboard, notices,
                 clip0, pending, received>>
  /\ UNCHANGED <<prevProbe, hvars, xvars>>

\* const clipboardContent = await Clipboard.read(): logged only
Verify(p) ==
  /\ pc[p] = "verify"
  /\ \/ /\ Logged(p, "verify", <<>>, TRUE)
        /\ Goto(p, "hudSuccess")
        /\ UNCHANGED err
     \/ \E e \in ClipboardErrors :
          /\ Logged(p, "verify", <<>>, FALSE)
          /\ Raise(p, e)
          /\ Goto(p, "catch")
  /\ UNCHANGED <<values, text, hasPermissions, originalClipboard, notices,
                 clip0, clipboard, pending, received>>
  /\ UNCHANGED <<prevProbe, hvars, xvars>>

ShowSuccess(p) ==
  /\ pc[p] = "hudSuccess"
  /\ Show(p, SuccessNotice)
  /\ Goto(p, "done")
  /\ UNCHANGED <<values, text, hasPermissions, originalClipboard, err, log,
                 clip0, clipboard, pending, received>>
  /\ UNCHANGED <<prevProbe, hvars, xvars>>

\* catch (error) of handleSubmit
Catch(p) ==
  /\ pc[p] = "catch"
  /\ Show(p, FailureNotice(err[p]))
  /\ Goto(p, "done")
  /\ UNCHANGED <<values, text, hasPermissions, originalClipboard, err, log,
                 clip0, clipboard, pending, received>>
  /\ UNCHANGED <<prevProbe, hvars, xvars>>

\* ------------------------------------------------------ focused application
\* The focused application consumes a simulated Cmd+V: it pastes what the
\* clipboard holds then.  The OS delivers the event asynchronously, so this
\* can happen at any time after the script has run.
ConsumeKeystroke ==
  /\ pending # <<>>
  /\ received' = Append(received, [by |-> Head(pending), what |-> clipboard])
  /\ pending' = Tail(pending)
  /\ UNCHANGED <<pc, values, text, hasPermissions, originalClipboard, err, log,
                 notices, clip0, clipboard>>
  /\ UNCHANGED <<prevProbe, hvars, xvars>>

Next ==
  \/ \E p \in Procs :
       \/ Submit(p)
       \/ ShowValidation(p)
       \/ CheckPermissions(p)
       \/ CopyOnly(p)
       \/ ShowClipboardOnly(p)
       \/ Paste(p)
       \/ ReadSnapshot(p)
       \/ CopyText(p)
       \/ Keystroke(p)
       \/ Delay(p)
       \/ Restore(p)
       \/ RestoreOnError(p)
       \/ Backup(p)
       \/ Verify(p)
       \/ ShowSuccess(p)
       \/ Catch(p)
  \/ ConsumeKeystroke

\* Submissions are user-paced: one is in flight at a time, and nothing but
\* the handler writes the clipboard.
Spec == Init /\ [][Next]_vars

MaxFormLen == 1
\* the textarea contents submitted where the content is not what is checked
FormInputs == {raw \in RawInputs : Len(raw) <= MaxFormLen}

\* The form as it is: onSubmit calls handleSubmit whenever the user submits,
\* also while an earlier invocation is still awaiting a call.
SubmitForm(p) == \E raw \in FormInputs : Enter(p, raw)

NextForm ==
  \/ \E p \in Procs :
       \/ SubmitForm(p)
       \/ ShowValidation(p)
       \/ CheckPermissions(p)
       \/ CopyOnly(p)
       \/ ShowClipboardOnly(p)
       \/ Paste(p)
       \/ ReadSnapshot(p)
       \/ CopyText(p)
       \/ Keystroke(p)
       \/ Delay(p)
       \/ Restore(p)
       \/ RestoreOnError(p)
       \/ Backup(p)
       \/ Verify(p)
       \/ ShowSuccess(p)
       \/ Catch(p)
  \/ ConsumeKeystroke

\* before any submission, the clipboard holding a text
InitForm == Init /\ clipboard = TextClip(<<"c">>)

SpecForm == InitForm /\ [][NextForm]_vars

\* one step of invocation p of handleSubmit
Step(p) ==
  \/ ShowValidation(p) \/ CheckPermissions(p) \/ CopyOnly(p)
  \/ ShowClipboardOnly(p) \/ Paste(p) \/ ReadSnapshot(p) \/ CopyText(p)
  \/ Keystroke(p) \/ Delay(p) \/ Restore(p) \/ RestoreOnError(p)
  \/ Backup(p) \/ Verify(p) \/ ShowSuccess(p) \/ Catch(p)

\* Every external call returns or fails: an invocation that can take a step
\* takes it.
FairSpec == Spec /\ \A p \in Procs : WF_vars(Step(p))

\* ------------------------------------------------- another clipboard writer
MaxExternalWrites == 1
\* what the other process puts on the clipboard
ExternalClip == TextClip(<<"x">>)

\* Another process writes the clipboard while invocation p is between its
\* snapshot (line 31) and its restore (lines 47-53); the write is noted in
\* log[p] at the place where it happened.
ExternalWrite(p) ==
  /\ pc[p] \in {"copyText", "keystroke", "delay", "restore"}
  /\ Count(log[p], "external") < MaxExternalWrites
  /\ clipboard # ExternalClip
  /\ clipboard' = ExternalClip
  /\ Logged(p, "external", ExternalClip.text, TRUE)
  /\ UNCHANGED <<pc, values, text, hasPermissions, originalClipboard, err,
                 notices, clip0, pending, received>>
  /\ UNCHANGED <<prevProbe, hvars, xvars>>

\* before any submission, the clipboard holding a text or a file
InitExternal == Init /\ clipboard \in {TextClip(<<"c">>), Clip(<<>>, <<"f">>)}

\* The user submits the form while no submission is in flight.
SubmitExternal(p) ==
  /\ \A q \in Procs : ~InFlight(q)
  /\ SubmitForm(p)

NextExternal ==
  \/ \E p \in Procs :
       \/ SubmitExternal(p)
       \/ Step(p)
       \/ ExternalWrite(p)
  \/ ConsumeKeystroke

\* One submission at a time, with another process writing the clipboard
\* during the fallback.
SpecExternal == InitExternal /\ [][NextExternal]_vars

\* --------------------------------------------------------- applescript.ts
\* execAsync(`osascript -e '...'`): the command line is built and exec is
\* called with it; o is how the process ends
Exec(o) ==
  /\ epc = "called"
  /\ command' = CommandLine(script)
  /\ execCalls' = execCalls + 1
  /\ proc' = o
  /\ epc' = "awaited"
  /\ UNCHANGED <<script, result, svars, hvars>>

\* the await settles: stderr check, return of stdout.trim(), or the catch
Settle ==
  /\ epc = "awaited"
  /\ result' = ExecAppleScript(proc)
  /\ epc' = "returned"
  /\ UNCHANGED <<script, command, execCalls, proc, svars, hvars>>

\* execAppleScript(script) has just been called
InitExec ==
  /\ pc = [p \in Procs |-> "idle"]
  /\ values = [p \in Procs |-> <<>>]
  /\ text = [p \in Procs |-> <<>>]
  /\ hasPermissions = [p \in Procs |-> FALSE]
  /\ originalClipboard = [p \in Procs |-> EmptyClip]
  /\ err = [p \in Procs |-> NoError]
  /\ log = [p \in Procs |-> <<>>]
  /\ notices = [p \in Procs |-> <<>>]
  /\ clip0 = [p \in Procs |-> EmptyClip]
  /\ clipboard = EmptyClip
  /\ pending = <<>>
  /\ received = <<>>
  /\ prevProbe = "none"
  /\ storage = Absent
  /\ lastOp = NoOp
  /\ historyOps = 0
  /\ script \in Scripts
  /\ command = <<>>
  /\ execCalls = 0
  /\ proc = NoProcess
  /\ result = NoResult
  /\ epc = "called"

NextExec ==
  \/ \E o \in ExecOutcomes : Exec(o)
  \/ Settle

\* One call of execAppleScript.
SpecExec == InitExec /\ [][NextExec]_vars

\* ------------------------------------------------------------- storage.ts
\* getHistory(): the parsed item, [] when there is none or the read fails
GetHistory(readOk) ==
  IF readOk /\ storage # Absent THEN Parse(storage) ELSE <<>>

\* the history as it is persisted
History == IF storage = Absent THEN <<>> ELSE Parse(storage)

Returned(op, t, readOk, writeOk, found) ==
  /\ lastOp' = [op |-> op, text |-> t, before |-> History, read |-> readOk,
                written |-> writeOk, result |-> found]
  /\ historyOps' = historyOps + 1

\* getHistory() called by the form
LoadHistory(readOk) ==
  /\ historyOps < MaxHistoryOps
  /\ Returned("getHistory", 0, readOk, TRUE, GetHistory(readOk))
  /\ UNCHANGED <<storage, svars, xvars>>

\* saveToHistory without the removal of the duplicate
SaveToHistoryNoFilter(t, readOk, writeOk) ==
  /\ historyOps < MaxHistoryOps
  /\ LET currentHistory == GetHistory(readOk)
         newHistory == Slice(<<t>> \o currentHistory, MAX_HISTORY_ITEMS)
     IN  storage' = IF writeOk THEN Stringify(newHistory) ELSE storage
  /\ Returned("saveToHistory", t, readOk, writeOk, <<>>)
  /\ UNCHANGED <<svars, xvars>>

\* saveToHistory that cuts the list before it removes the duplicate
SaveToHistorySliceFirst(t, readOk, writeOk) ==
  /\ historyOps < MaxHistoryOps
  /\ LET currentHistory == Slice(GetHistory(readOk), MAX_HISTORY_ITEMS - 1)
         filteredHistory == SelectSeq(currentHistory, LAMBDA item : item # t)
         newHistory == <<t>> \o filteredHistory
     IN  storage' = IF writeOk THEN Stringify(newHistory) ELSE storage
  /\ Returned("saveToHistory", t, readOk, writeOk, <<>>)
  /\ UNCHANGED <<svars, xvars>>

\* saveToHistory(text); readOk, writeOk: getItem / setItem did not throw
SaveToHistory(t, readOk, writeOk) ==
  /\ historyOps < MaxHistoryOps
  /\ LET currentHistory == GetHistory(readOk)
         filteredHistory == SelectSeq(currentHistory, LAMBDA item : item # t)
         newHistory == Slice(<<t>> \o filteredHistory, MAX_HISTORY_ITEMS)
     IN  storage' = IF writeOk THEN Stringify(newHistory) ELSE storage
  /\ Returned("saveToHistory", t, readOk, writeOk, <<>>)
  /\ UNCHANGED <<svars, xvars>>

\* clearHistory(); ok: removeItem did not throw
ClearHistory(ok) ==
  /\ historyOps < MaxHistoryOps
  /\ storage' = IF ok THEN Absent ELSE storage
  /\ Returned("clearHistory", 0, TRUE, ok, <<>>)
  /\ UNCHANGED <<svars, xvars>>

\* The store after some saves of different texts to an empty store.
InitHistory ==
  /\ pc = [p \in Procs |-> "idle"]
  /\ values = [p \in Procs |-> <<>>]
  /\ text = [p \in Procs |-> <<>>]
  /\ hasPermissions = [p \in Procs |-> FALSE]
  /\ originalClipboard = [p \in Procs |-> EmptyClip]
  /\ err = [p \in Procs |-> NoError]
  /\ log = [p \in Procs |-> <<>>]
  /\ notices = [p \in Procs |-> <<>>]
  /\ clip0 = [p \in Procs |-> EmptyClip]
  /\ clipboard = EmptyClip
  /\ pending = <<>>
  /\ received = <<>>
  /\ prevProbe = "none"
  /\ \E k \in 0..MAX_HISTORY_ITEMS :
       storage = IF k = 0 THEN Absent ELSE Stringify(Recent(k))
  /\ lastOp = NoOp
  /\ historyOps = 0
  /\ NoCall

NextHistory ==
  \/ \E readOk \in BOOLEAN : LoadHistory(readOk)
  \/ \E t \in HistoryTexts, readOk, writeOk \in BOOLEAN :
       SaveToHistory(t, readOk, writeOk)
  \/ \E ok \in BOOLEAN : ClearHistory(ok)

\* The history operations, called one at a time.
SpecHistory == InitHistory /\ [][NextHistory]_vars

\* ================================================================== claims
Did(p, op) == Count(log[p], op) > 0
Succeeded(p, op) == \E i \in DOMAIN log[p] : log[p][i].op = op /\ log[p][i].ok
Failed(p, op) == \E i \in DOMAIN log[p] : log[p][i].op = op /\ ~log[p][i].ok
Shown(p, n) == pc[p] = "done" /\ notices[p] = <<n>>
Spaces(n) == [i \in 1..n |-> " "]

\* t is raw without its leading and trailing whitespace
IsTrimOf(t, raw) ==
  /\ \E i, j \in 0..Len(raw) : raw = Spaces(i) \o t \o Spaces(j)
  /\ t # <<>> => (t[1] # " " /\ t[Len(t)] # " ")

\* C1: whenever a submission with non-empty trimmed text has shown the
\* success notice, the clipboard holds exactly the trimmed submitted text,
\* after the direct paste as well as after the keystroke fallback.
C1_ClipboardHoldsTextOnSuccess ==
  \A p \in Procs :
    Shown(p, SuccessNotice) =>
      /\ clipboard.file = <<>>
      /\ clipboard.text # <<>>
      /\ IsTrimOf(clipboard.text, values[p])

\* the fallback restored a different text snapshot and the notice was shown
C1_Witness ==
  \E p \in Procs :
    /\ Shown(p, SuccessNotice)
    /\ Did(p, "keystroke") /\ Did(p, "restore")
    /\ originalClipboard[p].text # text[p]
    /\ values[p] # text[p]

\* what the focused application was given on behalf of invocation p
ReceivedBy(p) ==
  LET mine == SelectSeq(received, LAMBDA r : r.by = p)
  IN  [i \in DOMAIN mine |-> mine[i].what]
KeystrokePending(p) == \E i \in DOMAIN pending : pending[i] = p

\* C2: once a submission has shown the success notice and its keystroke
\* (if any) has been consumed, the focused application has been given
\* exactly the submitted text, exactly once.
C2_ReceivedTextExactlyOnce ==
  \A p \in Procs :
    (Shown(p, SuccessNotice) /\ ~KeystrokePending(p)) =>
      ReceivedBy(p) = <<TextClip(text[p])>>

AllWhitespace(raw) == \A i \in DOMAIN raw : raw[i] = " "

\* C3: a submission whose text is empty or all whitespace makes no external
\* call (no clipboard read or write, no paste, no probe, no keystroke),
\* leaves the clipboard as it was and shows only the validation notice.
C3_WhitespaceHasNoEffect ==
  \A p \in Procs :
    (pc[p] \notin {"idle", "forgotten"} /\ AllWhitespace(values[p])) =>
      /\ pc[p] \in {"validation", "done"}
      /\ log[p] = <<>>
      /\ clipboard = clip0[p]
      /\ ReceivedBy(p) = <<>> /\ ~KeystrokePending(p)
      /\ notices[p] = IF pc[p] = "done" THEN <<ValidationNotice>> ELSE <<>>

\* a submission of spaces only has shown the validation notice
C3_Witness ==
  \E p \in Procs :
    /\ Shown(p, ValidationNotice)
    /\ values[p] # <<>>
    /\ clipboard # EmptyClip

ProbeFalse(p) == Did(p, "probe") /\ ~hasPermissions[p]

\* C4: in a submission whose permission probe returned false neither the
\* keystroke injection nor the direct paste is ever issued.
C4_NoKeystrokeWithoutPermission ==
  \A p \in Procs :
    ProbeFalse(p) =>
      /\ ~Did(p, "keystroke") /\ ~Did(p, "paste")
      /\ ~KeystrokePending(p) /\ ReceivedBy(p) = <<>>

\* a submission whose probe returned false has finished
C4_Witness ==
  \E p \in Procs : ProbeFalse(p) /\ pc[p] \in Finished

Ops(p) == [i \in DOMAIN log[p] |-> log[p][i].op]

C6_RestorePointHoldsSnapshot ==
  \A p \in Procs :
    (pc[p] = "backup" /\ Did(p, "keystroke") /\ originalClipboard[p].text # <<>>) =>
      /\ clipboard = TextClip(originalClipboard[p].text)
      /\ clipboard.text = clip0[p].text

\* the restore point is reached with a snapshot text other than the
\* submitted text
C6_Witness ==
  \E p \in Procs :
    /\ pc[p] = "backup" /\ Did(p, "keystroke")
    /\ originalClipboard[p] = TextClip(<<"c">>)
    /\ text[p] # <<"c">>

RestoredForm(c) == IF c.text # <<>> THEN TextClip(c.text) ELSE c

C8_SavedToClipboardOnAppleScriptFailure ==
  \A p \in Procs : Shown(p, AppleScriptNotice) => clipboard = TextClip(text[p])

\* C9: every finished submission has shown exactly one notice and no
\* exception has left handleSubmit.
C9_OneNoticeNoEscape ==
  \A p \in Procs :
    pc[p] \in Finished => (pc[p] = "done" /\ Len(notices[p]) = 1)

FallbackSteps == {"copyText", "keystroke", "restore"}
FailureNotices ==
  {PermissionNotice, AppleScriptNotice, UnknownNotice}
    \cup {GenericNotice(e.message) : e \in ClipboardErrors}

\* C10: once a step of the keystroke fallback has failed after a snapshot
\* with text was taken and the error has reached handleSubmit, a clipboard
\* write of the snapshot's text was attempted after the failure; the backup
\* copy is not made, the success notice is not shown, and the submission
\* ends with one failure notice.
C10_RestoreAttemptedOnFallbackError ==
  \A p \in Procs :
    \A i \in DOMAIN log[p] :
      ( /\ log[p][i].op \in FallbackSteps /\ ~log[p][i].ok
        /\ originalClipboard[p].text # <<>>
        /\ pc[p] \in {"catch", "done", "threw"} ) =>
        /\ i < Len(log[p])
        /\ log[p][i + 1].op = "restoreOnError"
        /\ log[p][i + 1].arg = originalClipboard[p].text
        /\ Len(log[p]) = i + 1
        /\ ~Did(p, "backup")
        /\ pc[p] # "threw"
        /\ pc[p] = "done" => (Len(notices[p]) = 1 /\ notices[p][1] \in FailureNotices)
        /\ pc[p] = "catch" => notices[p] = <<>>

\* the keystroke injection failed over a text snapshot and the failure
\* notice has been shown
C10_Witness ==
  \E p \in Procs :
    /\ pc[p] = "done"
    /\ Failed(p, "keystroke")
    /\ originalClipboard[p].text \notin {<<>>, text[p]}
    /\ clipboard = originalClipboard[p]

\* -------------------------------------------------------------- C11 .. C20
IsPrefix(a, b) == Len(a) <= Len(b) /\ a = SubSeq(b, 1, Len(a))
RestoringWrites == {"restore", "restoreOnError"}
ClipboardWrites == {"copyOnly", "copyText", "backup"} \cup RestoringWrites

\* C11: when the snapshot holds a file or nothing, the fallback makes no
\* restoring clipboard write, neither after the delay nor in its catch.
C11_NoRestoreOfFileOrEmpty ==
  \A p \in Procs :
    ( /\ Succeeded(p, "snapshot")
      /\ (originalClipboard[p].file # <<>> \/ originalClipboard[p] = EmptyClip) ) =>
      \A i \in DOMAIN log[p] : log[p][i].op \notin RestoringWrites

\* the external calls of a submission whose fallback runs to the end
FallbackSequence(p) ==
  <<"probe", "paste", "snapshot", "copyText", "keystroke", "delay">>
    \o (IF originalClipboard[p].text # <<>> THEN <<"restore">> ELSE <<>>)
    \o <<"backup", "verify">>

\* permission granted, the direct paste failed, no other call has thrown
FallbackScenario(p) ==
  /\ hasPermissions[p] /\ Failed(p, "paste")
  /\ \A i \in DOMAIN log[p] : log[p][i].op # "paste" => log[p][i].ok

\* C12: with permission granted and the direct paste failing, a submission
\* makes its calls in this order, each once: snapshot read, write of the
\* submitted text, keystroke injection, settle delay, restore of the
\* snapshot (a write when the snapshot has text), write of the submitted
\* text again (then the verification read), and last the success notice.
C12_FallbackOrder ==
  \A p \in Procs :
    FallbackScenario(p) =>
      /\ IsPrefix(Ops(p), FallbackSequence(p))
      /\ \A i \in DOMAIN log[p] :
           /\ log[p][i].op \in {"copyText", "backup"} => log[p][i].arg = text[p]
           /\ log[p][i].op = "restore" => log[p][i].arg = originalClipboard[p].text
      /\ pc[p] \notin {"catch", "threw", "restoreOnError"}
      /\ notices[p] # <<>> =>
           (Ops(p) = FallbackSequence(p) /\ notices[p] = <<SuccessNotice>>)
      /\ pc[p] = "done" <=> notices[p] # <<>>

\* the whole sequence has run over a text snapshot other than the text
C12_Witness ==
  \E p \in Procs :
    /\ FallbackScenario(p)
    /\ Shown(p, SuccessNotice)
    /\ originalClipboard[p].text \notin {<<>>, text[p]}
    /\ Len(Ops(p)) = 9

\* C16: the keystroke injection is issued only after the direct paste of
\* the same submission has failed; after a successful direct paste the
\* submission takes no snapshot, injects no keystroke, makes no restore and
\* its only clipboard write is the backup copy.
C16_KeystrokeOnlyAfterFailedPaste ==
  \A p \in Procs :
    /\ \A j \in DOMAIN log[p] :
         log[p][j].op = "keystroke" =>
           \E i \in 1..(j - 1) : log[p][i].op = "paste" /\ ~log[p][i].ok
    /\ (KeystrokePending(p) /\ pc[p] # "forgotten") => Failed(p, "paste")
    /\ Succeeded(p, "paste") =>
         /\ IsPrefix(Ops(p), <<"probe", "paste", "backup", "verify">>)
         /\ originalClipboard[p] = EmptyClip
         /\ ~KeystrokePending(p)

\* a submission whose direct paste succeeded has shown the success notice
C16_Witness ==
  \E p \in Procs :
    /\ Succeeded(p, "paste")
    /\ Shown(p, SuccessNotice)
    /\ clip0[p] # TextClip(text[p])

\* C18: the failure notice is chosen by first match on the error message:
\* "permission" or "access" gives the accessibility notice, otherwise
\* "AppleScript" gives the automation notice, otherwise the generic notice
\* with the message; an error of the runner never gets the generic notice.
C18_FailureNoticeByFirstMatch ==
  \A p \in Procs :
    (pc[p] = "done" /\ err[p].thrown) =>
      LET e == err[p]
          access == Includes(e.message, "permission") \/ Includes(e.message, "access")
          viaScript == Includes(e.message, "AppleScript")
      IN  /\ Len(notices[p]) = 1
          /\ notices[p][1] = PermissionNotice <=> (e.isError /\ access)
          /\ notices[p][1] = AppleScriptNotice <=> (e.isError /\ ~access /\ viaScript)
          /\ notices[p][1] = GenericNotice(e.message) <=>
               (e.isError /\ ~access /\ ~viaScript)
          /\ (Failed(p, "keystroke") /\ ~Failed(p, "restoreOnError")) =>
               notices[p][1] \in {PermissionNotice, AppleScriptNotice}

\* an error of the runner that names both AppleScript and access has been
\* given the accessibility notice
C18_Witness ==
  \E p \in Procs :
    /\ Shown(p, PermissionNotice)
    /\ Failed(p, "keystroke")
    /\ Includes(err[p].message, "AppleScript")

\* C19: in a submission that takes a snapshot, the snapshot is read exactly
\* once and before every operation of the submission that can change the
\* clipboard: the direct paste attempt and every clipboard write.
C19_SnapshotBeforeMutation ==
  \A p \in Procs :
    \A i \in DOMAIN log[p] :
      log[p][i].op = "snapshot" =>
        /\ Count(log[p], "snapshot") = 1
        /\ \A j \in DOMAIN log[p] :
             log[p][j].op \in ClipboardWrites \cup {"paste"} => i < j

Range(l) == {l[i] : i \in DOMAIN l}
NoDuplicates(l) == \A i, j \in DOMAIN l : i # j => l[i] # l[j]
Position(l, x) == CHOOSE i \in DOMAIN l : l[i] = x
Persisted(op) == lastOp.op = op /\ lastOp.read /\ lastOp.written

\* C13: after any sequence of saves and clears from an empty store the
\* persisted history has no duplicate and at most MAX_HISTORY_ITEMS (10)
\* entries; a save of T that was persisted leaves T at the front, and a
\* clear that was persisted leaves the history empty.
C13_HistoryBoundedNoDuplicates ==
  /\ NoDuplicates(History)
  /\ Len(History) <= MAX_HISTORY_ITEMS
  /\ storage # Absent => Stringify(History) = storage
  /\ (lastOp.op = "saveToHistory" /\ lastOp.written) =>
       (History # <<>> /\ History[1] = lastOp.text)
  /\ (lastOp.op = "clearHistory" /\ lastOp.written) =>
       (History = <<>> /\ GetHistory(TRUE) = <<>>)

\* a text further down a full history has been saved again
C13_Witness ==
  /\ Persisted("saveToHistory")
  /\ Len(lastOp.before) = MAX_HISTORY_ITEMS
  /\ lastOp.text \in Range(lastOp.before)
  /\ lastOp.before[1] # lastOp.text
  /\ Len(History) = MAX_HISTORY_ITEMS

\* C14: a persisted save of T changes the list only by removing the entry
\* equal to T, putting T in front and cutting to the maximum: the other
\* entries keep their order, and exactly the last entry is dropped when the
\* list was full and T was new, none otherwise.
C14_SaveKeepsOrder ==
  Persisted("saveToHistory") =>
    LET before == lastOp.before
        T == lastOp.text
        rest == Tail(History)
    IN  /\ History[1] = T
        /\ \A i \in DOMAIN rest : rest[i] # T /\ rest[i] \in Range(before)
        /\ \A i, j \in DOMAIN rest :
             i < j => Position(before, rest[i]) < Position(before, rest[j])
        /\ IF Len(before) = MAX_HISTORY_ITEMS /\ T \notin Range(before)
           THEN rest = SubSeq(before, 1, MAX_HISTORY_ITEMS - 1)
           ELSE Range(rest) = Range(before) \ {T}

\* a new text has been saved to a full history
C14_Witness ==
  /\ Persisted("saveToHistory")
  /\ Len(lastOp.before) = MAX_HISTORY_ITEMS
  /\ lastOp.text \notin Range(lastOp.before)
  /\ historyOps = MaxHistoryOps

\* C15: a submission with non-empty trimmed text runs the permission probe
\* exactly once and before any clipboard read, clipboard write or paste
\* attempt; the probe never raises; its result is that of this run of the
\* probe whatever the previous submission's probe gave, and decides between
\* the paste path and the clipboard-only path.
C15_ProbeOncePerSubmission ==
  \A p \in Procs :
    /\ pc[p] \in {"idle", "forgotten", "validation", "checkPermissions"} =>
         log[p] = <<>>
    /\ log[p] # <<>> =>
         /\ text[p] # <<>>
         /\ log[p][1].op = "probe"
         /\ Count(log[p], "probe") = 1
         /\ hasPermissions[p] = log[p][1].ok
         /\ Len(log[p]) = 1 =>
              (~err[p].thrown /\ pc[p] = IF log[p][1].ok THEN "paste" ELSE "copyOnly")
         /\ Len(log[p]) > 1 =>
              log[p][2].op = IF log[p][1].ok THEN "paste" ELSE "copyOnly"

\* after a submission whose probe failed, the next one has probed with
\* success and attempted the paste
C15_Witness ==
  \E p \in Procs :
    /\ prevProbe = "denied"
    /\ p > 1 /\ Succeeded(p, "probe") /\ Did(p, "paste")

\* C17: every submission terminates, provided each external call returns or
\* fails; in one submission the direct paste and the keystroke injection
\* are each attempted at most once; and a submission starts from the
\* beginning, with nothing kept from an earlier one.
C17_TerminatesWithoutRetry ==
  /\ \A p \in Procs : InFlight(p) ~> (pc[p] \in Finished)
  /\ [](\A p \in Procs :
          Count(log[p], "paste") <= 1 /\ Count(log[p], "keystroke") <= 1)
  /\ [][\A p \in Procs :
          (pc[p] = "idle" /\ pc'[p] # "idle") =>
            /\ pc'[p] \in {"validation", "checkPermissions"}
            /\ log'[p] = <<>> /\ notices'[p] = <<>> /\ err'[p] = NoError
            /\ originalClipboard'[p] = EmptyClip]_vars

\* a submission made after one whose probe failed has gone through the
\* keystroke fallback to the success notice
C17_Witness ==
  \E p \in Procs :
    /\ p > 1 /\ prevProbe = "denied"
    /\ Failed(p, "paste") /\ Succeeded(p, "keystroke")
    /\ Shown(p, SuccessNotice)

\* C20: at most one submission is in flight at any time: the form accepts
\* no second submit between the start of handleSubmit and its final notice.
C20_OneSubmissionInFlight ==
  Cardinality({p \in Procs : InFlight(p)}) <= 1

\* C22: for every script, the command line built by execAppleScript, split
\* into words by the quoting rules of the POSIX shell, is exactly the words
\* osascript, -e and the script itself, unchanged.
C22_CommandLineRoundTrip ==
  epc \in {"awaited", "returned"} =>
    ShellWords(command) = <<Osascript, DashE, script>>

\* a script with a single quote and a double quote has been run
C22_Witness ==
  /\ epc = "awaited"
  /\ \E i, j \in DOMAIN script : script[i] = "'" /\ script[j] = "\""

\* C23: a call of execAppleScript runs exec exactly once; it returns the
\* trimmed standard output if and only if the process was spawned, exited
\* successfully and wrote nothing to its error stream, and raises an error
\* with no value returned in every other case.
C23_ReturnsIffCleanExit ==
  /\ execCalls = IF epc \in {"awaited", "returned"} THEN 1 ELSE 0
  /\ epc # "returned" => result = NoResult
  /\ epc = "returned" =>
       /\ result.ok <=> (proc.spawned /\ proc.exitOk /\ proc.stderr = <<>>)
       /\ result.ok =>
            (IsTrimOf(result.value, proc.stdout) /\ ~result.error.thrown)
       /\ ~result.ok =>
            /\ result.value = <<>>
            /\ result.error.thrown /\ result.error.isError
            /\ Includes(result.error.message, "AppleScript")

\* standard output with whitespace around it has been returned trimmed
C23_Witness ==
  /\ epc = "returned" /\ result.ok
  /\ result.value # <<>> /\ result.value # proc.stdout

\* a storage read or write of the last history operation threw
PersistenceFailed == lastOp.op # "none" /\ (~lastOp.read \/ ~lastOp.written)

\* C24: a persistence failure during a history operation (a failing storage
\* read or write inside save, get or clear) never raises to the caller,
\* never changes the notices of the send path, and leaves the persisted
\* history unchanged.
C24_FailureLeavesHistoryUnchanged ==
  PersistenceFailed =>
    /\ historyOps > 0
    /\ \A p \in Procs : notices[p] = <<>> /\ ~err[p].thrown
    /\ History = lastOp.before

\* the calls of p, the direct paste apart, have all returned
OthersOk(p) == \A i \in DOMAIN log[p] : log[p][i].op # "paste" => log[p][i].ok
After(p, op1, op2) ==
  \E i, j \in DOMAIN log[p] : i < j /\ log[p][i].op = op1 /\ log[p][j].op = op2

\* C21: a clipboard write by another process between the snapshot and the
\* restore of the fallback is not detected: no error is raised, the restore
\* step still writes the stale snapshot (when the snapshot has text), the
\* backup copy still writes the submitted text, and the submission ends with
\* the success notice and the clipboard holding the submitted text: the
\* external write is lost.
C21_ExternalWriteLost ==
  \A p \in Procs :
    (Did(p, "external") /\ OthersOk(p)) =>
      /\ After(p, "snapshot", "external")
      /\ ~err[p].thrown /\ pc[p] \notin {"catch", "threw", "restoreOnError"}
      /\ originalClipboard[p] = clip0[p]
      /\ pc[p] \in {"backup", "verify", "hudSuccess", "done"} =>
           IF originalClipboard[p].text # <<>>
           THEN /\ After(p, "external", "restore")
                /\ \A i \in DOMAIN log[p] :
                     log[p][i].op = "restore" => log[p][i].arg = clip0[p].text
           ELSE ~Did(p, "restore")
      /\ \A i \in DOMAIN log[p] :
           log[p][i].op = "backup" => log[p][i].arg = text[p]
      /\ pc[p] = "done" =>
           /\ notices[p] = <<SuccessNotice>>
           /\ After(p, "external", "backup")
           /\ clipboard = TextClip(text[p])
           /\ clipboard # ExternalClip

\* the clipboard was written by the other process after the snapshot of a
\* text, and the submission has ended with the success notice
C21_Witness ==
  \E p \in Procs :
    /\ Did(p, "external") /\ OthersOk(p)
    /\ Shown(p, SuccessNotice)
    /\ Succeeded(p, "restore")

====
